---- MODULE Spec2Model ----
(***************************************************************************)
(* XML -> table -> pivoted table -> spreadsheet, as done by                *)
(* api/convert.py (HTTP handler) and xml_to_xlsx_converter.py (batch CLI). *)
(*                                                                         *)
(* An XML document is modelled after parsing: a tree of elements, each     *)
(* with a namespace, a local name, a text (a string, or None) and its      *)
(* child elements; a text that is not well-formed XML is modelled by the   *)
(* flag wellformed = FALSE.  A table (a pandas DataFrame) is a sequence of *)
(* column labels and a sequence of rows, each row a sequence of cells.     *)
(***************************************************************************)
EXTENDS Integers, Sequences, FiniteSets, TLC

VARIABLES
    request,        \* the HTTP request, or the CLI call, being served
    pc,             \* position in handler / convert_xml_to_excel
    xml_content,    \* the XML the handler found in the request
    df,             \* the table parse_xml_to_dataframe returned (or None)
    parse_message,
    pivot_df,       \* the table create_pivot_table returned
    pivot_message,
    sheets,         \* the workbook written: sheet name -> table
    metadata,       \* the rows of the Metadata sheet
    response        \* the HTTP response, or the CLI call's return value

vars == <<request, pc, xml_content, df, parse_message, pivot_df,
          pivot_message, sheets, metadata, response>>

-----------------------------------------------------------------------------
(* Cells.  A cell is a string, a number or missing (None / NaN).           *)

Missing == [kind |-> "nan", n |-> 0, s |-> ""]
Str(t)  == [kind |-> "str", n |-> 0, s |-> t]
Num(i)  == [kind |-> "num", n |-> i, s |-> ""]
IsNa(c) == c.kind = "nan"

(* Column labels.  A label is a name, or a period value; a period value    *)
(* is an int64 or a float64 (str(2020) = "2020", str(2020.0) = "2020.0").  *)
Name(t)       == [kind |-> "name", n |-> 0, s |-> t]
IntLabel(i)   == [kind |-> "int", n |-> i, s |-> ""]
FloatLabel(i) == [kind |-> "float", n |-> i, s |-> ""]

(* Messages: a template and the numbers formatted into it.                 *)
Msg(t, a) == [text |-> t, args |-> a]
NoMsg     == Msg("", <<>>)

(* Tables.  None is the value returned in place of a table on failure.     *)
Table(cols, rows) == [none |-> FALSE, columns |-> cols, rows |-> rows]
None == [none |-> TRUE, columns |-> <<>>, rows |-> <<>>]

Range(f) == {f[i] : i \in DOMAIN f}

RECURSIVE IndexOf(_, _, _)
IndexOf(seq, x, i) ==
    IF i > Len(seq) THEN 0
    ELSE IF seq[i] = x THEN i ELSE IndexOf(seq, x, i + 1)

(* Position of the column named t in table d, 0 when there is none.        *)
ColPos(d, t) == IndexOf(d.columns, Name(t), 1)
HasCol(d, t) == ColPos(d, t) # 0
CellOf(d, r, t) == d.rows[r][ColPos(d, t)]

-----------------------------------------------------------------------------
(* XML elements and ElementTree's find / findall.                          *)

URI == "http://schemas.datacontract.org/2004/07/E1212_ServiceAPI.Models"

Elem(ns, tag, text, kids) == [ns |-> ns, tag |-> tag, text |-> text, kids |-> kids]

RECURSIVE Descendants(_), DescendantsOfAll(_)
(* Proper descendants of e in document order: what './/' walks.            *)
Descendants(e) == DescendantsOfAll(e.kids)
DescendantsOfAll(ks) ==
    IF ks = <<>> THEN <<>>
    ELSE <<Head(ks)>> \o Descendants(Head(ks)) \o DescendantsOfAll(Tail(ks))

(* e.findall('.//tag', namespace): with the namespace map {'': URI} an     *)
(* unprefixed name means {URI}tag; with no map it means tag in no          *)
(* namespace.  The element e itself is never among the matches.            *)
findall(e, tag, ns) ==
    SelectSeq(Descendants(e), LAMBDA d : d.tag = tag /\ d.ns = ns)

(* child.tag as ElementTree gives it: '{uri}local', or 'local' in no       *)
(* namespace; kept as the pair <<uri, local>>.                             *)
ETag(e) == <<e.ns, e.tag>>

(* A faulty tag_name: the namespace is not stripped.                       *)
tag_name_qualified(child) ==
    IF ETag(child)[1] = "" THEN ETag(child)[2]
    ELSE "{" \o ETag(child)[1] \o "}" \o ETag(child)[2]

(* child.tag.split('}')[-1] if '}' in child.tag else child.tag             *)
tag_name(child) == ETag(child)[2]

(* pd.to_numeric(..., errors='coerce') on one cell: a numeral becomes its  *)
(* number, anything else (None included) becomes missing.                  *)
NumeralValue(t) ==
    CASE t = "1" -> 1      [] t = "2" -> 2      [] t = "3" -> 3
      [] t = "5" -> 5      [] t = "7" -> 7      [] t = "9" -> 9
      [] t = "2020" -> 2020 [] t = "2021" -> 2021 [] t = "1999" -> 1999
      [] t = "-1" -> -1
      [] OTHER -> 0
IsNumeral(t) == t \in {"1", "2", "3", "5", "7", "9", "2020", "2021", "1999", "-1"}

to_numeric(c) ==
    IF c.kind = "str" /\ IsNumeral(c.s) THEN Num(NumeralValue(c.s))
    ELSE IF c.kind = "num" THEN c ELSE Missing

numeric_columns == {"DTVAL_CO", "Period", "CODE", "CODE1", "CODE2"}

(* One TN_DT element -> one record: a dict in insertion order.  A repeated *)
(* child name keeps its first position and takes the last value.           *)
RECURSIVE BuildRecord(_, _)
BuildRecord(kids, rec) ==
    IF kids = <<>> THEN rec
    ELSE LET child == Head(kids)
             k == tag_name(child)
             v == IF child.text.kind = "str" THEN child.text ELSE Missing
             keys == IF k \in Range(rec.keys) THEN rec.keys ELSE Append(rec.keys, k)
         IN  BuildRecord(Tail(kids),
                 [keys |-> keys,
                  val |-> [x \in Range(keys) |-> IF x = k THEN v ELSE rec.val[x]]])

EmptyRecord == [keys |-> <<>>, val |-> <<>>]

(* pd.DataFrame(records): columns in order of first appearance.            *)
RECURSIVE UnionKeys(_, _)
UnionKeys(records, acc) ==
    IF records = <<>> THEN acc
    ELSE LET new == SelectSeq(Head(records).keys, LAMBDA k : k \notin Range(acc))
         IN  UnionKeys(Tail(records), acc \o new)

DataFrame(records) ==
    LET cols == UnionKeys(records, <<>>)
        cell(r, k) == IF k \in Range(r.keys) THEN r.val[k] ELSE Missing
        coerce(k, c) == IF k \in numeric_columns THEN to_numeric(c) ELSE c
    IN  Table([j \in 1..Len(cols) |-> Name(cols[j])],
              [i \in 1..Len(records) |->
                  [j \in 1..Len(cols) |-> coerce(cols[j], cell(records[i], cols[j]))]])

(* root.find('.//DataList', namespace), then root.find('.//DataList'):    *)
(* the matches of the first search that has any, <<>> when both have none. *)
find_data_list(root) ==
    LET in_namespace == findall(root, "DataList", URI)
    IN  IF in_namespace # <<>> THEN in_namespace ELSE findall(root, "DataList", "")

(* data_list.findall('.//TN_DT', namespace), then without namespace.       *)
find_tn_dt(data_list) ==
    LET in_namespace == findall(data_list, "TN_DT", URI)
    IN  IF in_namespace # <<>> THEN in_namespace ELSE findall(data_list, "TN_DT", "")

(* The records list the loop over tn_dt_elements builds.                   *)
build_records(tn_dt_elements) ==
    [i \in 1..Len(tn_dt_elements) |-> BuildRecord(tn_dt_elements[i].kids, EmptyRecord)]

parse_xml_to_dataframe(xml) ==
    IF ~xml.wellformed THEN [df |-> None, msg |-> Msg("Error parsing XML: {e}", <<>>)]
    ELSE IF find_data_list(xml.root) = <<>>
    THEN [df |-> None, msg |-> Msg("No DataList found in XML", <<>>)]
    ELSE
    LET data_list == Head(find_data_list(xml.root))
        records == build_records(find_tn_dt(data_list))
    IN  IF records = <<>>
        THEN [df |-> None, msg |-> Msg("No data records found", <<>>)]
        ELSE [df |-> DataFrame(records),
              msg |-> Msg("Successfully parsed {N} records", <<Len(records)>>)]

-----------------------------------------------------------------------------
(* create_pivot_table                                                      *)

required_cols == <<"Period", "DTVAL_CO">>
potential_id_cols == <<"CODE", "SCR_MN", "SCR_ENG", "SCR_MN1", "SCR_ENG1">>

(* A faulty nunique: a missing value counts as one more value.             *)
nunique_counts_missing(d, col) ==
    Cardinality({CellOf(d, r, col) : r \in 1..Len(d.rows)})

(* Series.nunique(): the number of distinct values, missing ones left out. *)
nunique(d, col) ==
    Cardinality({CellOf(d, r, col) : r \in 1..Len(d.rows)} \ {Missing})

(* Order of the index values of one level, as groupby(sort=True) sorts     *)
(* them: numbers by value, strings in lexicographic order.                 *)
StrRank(t) ==
    CASE t = "A" -> 1 [] t = "B" -> 2 [] t = "a" -> 3 [] t = "abc" -> 4
      [] t = "b" -> 5 [] OTHER -> 6
CellLess(a, b) ==
    IF a.kind = "num" /\ b.kind = "num" THEN a.n < b.n
    ELSE StrRank(a.s) < StrRank(b.s)

RECURSIVE TupleLess(_, _)
TupleLess(a, b) ==
    IF a = <<>> \/ b = <<>> THEN FALSE
    ELSE IF Head(a) = Head(b) THEN TupleLess(Tail(a), Tail(b))
    ELSE CellLess(Head(a), Head(b))

RECURSIVE SortedTuples(_)
(* The index tuples of the finite set S in ascending order.                *)
SortedTuples(S) ==
    IF S = {} THEN <<>>
    ELSE LET m == CHOOSE x \in S : \A y \in S \ {x} : TupleLess(x, y)
         IN  <<m>> \o SortedTuples(S \ {m})

RECURSIVE SortedInts(_)
SortedInts(S) ==
    IF S = {} THEN <<>>
    ELSE LET m == CHOOSE x \in S : \A y \in S : x <= y
         IN  <<m>> \o SortedInts(S \ {m})

(* GroupBy.first(): the first value of the group that is not missing, and *)
(* missing when the group has none.                                        *)
RECURSIVE first(_)
first(values) ==
    IF values = <<>> THEN Missing
    ELSE IF ~IsNa(Head(values)) THEN Head(values) ELSE first(Tail(values))

(* dtype of a column pd.to_numeric produced: int64 when every cell is a    *)
(* number, float64 as soon as one is missing.                              *)
IsFloatColumn(d, col) == \E r \in 1..Len(d.rows) : IsNa(CellOf(d, r, col))

(* df.pivot_table(index=index, columns='Period', values='DTVAL_CO',        *)
(* aggfunc='first') followed by reset_index().  groupby drops the rows     *)
(* with a missing key (dropna=True), 'first' aggregates each (index,       *)
(* Period) group, dropna(how='all') drops the groups whose value is        *)
(* missing, and unstack spreads the periods over the columns, both axes    *)
(* sorted.                                                                 *)
pivot_table(d, index) ==
    LET all_rows == 1..Len(d.rows)
        ids(r) == [j \in 1..Len(index) |-> CellOf(d, r, index[j])]
        period(r) == CellOf(d, r, "Period")
        grouped == {r \in all_rows :
                       /\ ~IsNa(period(r))
                       /\ \A j \in 1..Len(index) : ~IsNa(ids(r)[j])}
        group(t, p) == SelectSeq([r \in all_rows |-> r],
                           LAMBDA r : r \in grouped /\ ids(r) = t /\ period(r).n = p)
        agged(t, p) == first([k \in 1..Len(group(t, p)) |->
                                 CellOf(d, group(t, p)[k], "DTVAL_CO")])
        kept == {r \in grouped : ~IsNa(agged(ids(r), period(r).n))}
        index_values == SortedTuples({ids(r) : r \in kept})
        period_values == SortedInts({period(r).n : r \in kept})
        label(p) == IF IsFloatColumn(d, "Period") THEN FloatLabel(p) ELSE IntLabel(p)
    IN  Table([j \in 1..Len(index) |-> Name(index[j])]
                  \o [j \in 1..Len(period_values) |-> label(period_values[j])],
              [i \in 1..Len(index_values) |->
                  index_values[i]
                  \o [j \in 1..Len(period_values) |->
                         agged(index_values[i], period_values[j])]])

(* key=lambda x: int(str(x)) if str(x).replace('-', '').isdigit()          *)
(*               else float('inf')                                         *)
(* str() of an int64 label is its digits, with a leading '-' when          *)
(* negative; str() of a float64 label has a '.', so it is not all digits.  *)
Inf == [inf |-> TRUE, n |-> 0]
sort_key(x) == IF x.kind = "int" THEN [inf |-> FALSE, n |-> x.n] ELSE Inf
KeyLess(a, b) == ~a.inf /\ (b.inf \/ a.n < b.n)

(* sorted(seq, key=sort_key): ascending by key, stable.                    *)
RECURSIVE InsertByKey(_, _)
InsertByKey(done, x) ==
    IF done = <<>> THEN <<x>>
    ELSE IF KeyLess(sort_key(x), sort_key(Head(done))) THEN <<x>> \o done
    ELSE <<Head(done)>> \o InsertByKey(Tail(done), x)

RECURSIVE sorted(_)
sorted(seq) ==
    IF seq = <<>> THEN <<>>
    ELSE InsertByKey(sorted(SubSeq(seq, 1, Len(seq) - 1)), seq[Len(seq)])

(* d[cols]: the columns of d named by cols, in that order.                 *)
Reindex(d, cols) ==
    Table(cols,
          [i \in 1..Len(d.rows) |->
              [j \in 1..Len(cols) |-> d.rows[i][IndexOf(d.columns, cols[j], 1)]]])

(* A faulty Returned: the result is written back into the argument.        *)
Returned_in_place(d, table, msg) == [df |-> table, pivot_df |-> table, msg |-> msg]

(* The value create_pivot_table returns, with the table it was given as    *)
(* that table is once the call has returned.                               *)
Returned(d, table, msg) == [df |-> d, pivot_df |-> table, msg |-> msg]

create_pivot_table(d) ==
    IF \E j \in 1..Len(required_cols) : ~HasCol(d, required_cols[j])
    THEN Returned(d, d, Msg("No pivot - missing required columns", <<>>))
    ELSE
    LET id_cols == SelectSeq(potential_id_cols, LAMBDA col : HasCol(d, col))
    IN  IF id_cols = <<>>
        THEN Returned(d, d, Msg("No pivot - no identifier columns found", <<>>))
        ELSE IF nunique(d, "Period") <= 1
        THEN Returned(d, d, Msg("No pivot - only one period found", <<>>))
        ELSE
        LET pivoted == pivot_table(d, id_cols)
            year_cols == sorted(SelectSeq(pivoted.columns,
                             LAMBDA col : ~(col.kind = "name" /\ col.s \in Range(id_cols))))
            cols == [j \in 1..Len(id_cols) |-> Name(id_cols[j])] \o year_cols
            wide == Reindex(pivoted, cols)
        IN  Returned(d, wide,
                Msg("Pivoted data: {R} categories across {P} periods",
                    <<Len(wide.rows), Len(year_cols)>>))

-----------------------------------------------------------------------------
(* Requests, responses and the workbook.                                   *)

NoElem == Elem("", "", Missing, <<>>)
(* A piece of XML text: absent (None or ''), not well-formed, or a tree.   *)
Absent      == [present |-> FALSE, wellformed |-> FALSE, root |-> NoElem]
Malformed   == [present |-> TRUE, wellformed |-> FALSE, root |-> NoElem]
Xml(root)   == [present |-> TRUE, wellformed |-> TRUE, root |-> root]

cors_headers ==
    { <<"Access-Control-Allow-Origin", "*">>,
      <<"Access-Control-Allow-Methods", "POST, GET, OPTIONS">>,
      <<"Access-Control-Allow-Headers", "Content-Type">> }
json_header == <<"Content-Type", "application/json">>

NoBody == [kind |-> "none", error |-> NoMsg, message |-> NoMsg,
           processing_notes |-> NoMsg, records_count |-> 0]
EmptyBody == [NoBody EXCEPT !.kind = "empty"]
ErrorBody(m) == [NoBody EXCEPT !.kind = "error", !.error = m]
SuccessBody(m, notes, count) ==
    [kind |-> "success", error |-> NoMsg, message |-> m,
     processing_notes |-> notes, records_count |-> count]

NoResponse == [status_code |-> 0, headers |-> {}, body |-> NoBody]
NoMetadata == [total_records |-> 0, status |-> "", notes |-> NoMsg]

(* xml_content = a.get('xml_content') or a.get('xml')                      *)
get_xml(a) == IF a.xml_content.present THEN a.xml_content ELSE a.xml

(* handler: the XML of the request, looked for in body, form, query.       *)
find_xml_content(req) ==
    IF req.body.present THEN req.body
    ELSE IF get_xml(req.form).present THEN get_xml(req.form)
    ELSE get_xml(req.args)

(* A faulty records_count: the rows of the table written to 'Data'.        *)
records_count_of_pivot(original, pivoted) == Len(pivoted.rows)

(* 'records_count': len(df), the table parse_xml_to_dataframe returned.    *)
records_count(original, pivoted) == Len(original.rows)

(* The test that decides whether the Original_Data sheet is written.       *)
writes_original(pivoted, original) == Len(pivoted.columns) # Len(original.columns)

(* The sheets of the workbook; the first sheet is named 'Data' by the      *)
(* handler and left with to_excel's default name by the CLI.               *)
workbook(sheet1, pivoted, original) ==
    {[name |-> sheet1, table |-> pivoted], [name |-> "Metadata", table |-> None]}
    \cup (IF writes_original(pivoted, original)
          THEN {[name |-> "Original_Data", table |-> original]} ELSE {})

-----------------------------------------------------------------------------
(* The inputs.                                                             *)

MaxRecords == 3       \* TN_DT records of a document with free field values
MaxListRecords == 2   \* TN_DT records of one container of a shaped document

(* The text of the DTVAL_CO of the i-th record, when it has one: the       *)
(* records of one document carry pairwise different values.                *)
ValueText == <<"5", "7", "3", "9", "1">>

Field(ns, name, text) == Elem(ns, name, text, <<>>)

(* The field values a record may take, by field name.  "abc" and "A" are   *)
(* texts pd.to_numeric cannot parse; None is an empty or nil element;      *)
(* Str("v") stands for the record's own value text.  The records of the    *)
(* document with two identifier columns (wide) take fewer.                 *)
Texts(name, wide) ==
    CASE name = "CODE"     -> IF wide THEN {Str("1"), Str("A")} ELSE {Str("1")}
      [] name = "SCR_MN"   -> IF wide THEN {Str("a"), Str("b")} ELSE {Str("a")}
      [] name = "Period"   -> IF wide THEN {Str("2021"), Str("2020")}
                              ELSE {Str("2021"), Str("2020"), Str("abc")}
      [] name = "DTVAL_CO" -> IF wide THEN {Str("v")} ELSE {Str("v"), Missing}
      [] OTHER             -> {Missing}
(* The field lists of the documents with free field values, in document   *)
(* order.                                                                  *)
Schemas ==
    { <<"CODE", "Period", "DTVAL_CO">>,
      <<"Period", "SCR_MN", "DTVAL_CO">>,
      <<"Period", "DTVAL_CO">>,
      <<"CODE", "Period">>,
      <<"SCR_MN", "DTVAL_CO">>,
      <<"UNIT">> }
WideSchema == <<"SCR_MN", "CODE", "Period", "DTVAL_CO">>

(* The records a document of this field list may hold: each a sequence of *)
(* texts, one per field.                                                   *)
RECURSIVE RecordTexts(_, _)
RecordTexts(schema, wide) ==
    IF schema = <<>> THEN {<<>>}
    ELSE {<<t>> \o rest : t \in Texts(Head(schema), wide),
                          rest \in RecordTexts(Tail(schema), wide)}

RecordsOf(schema, wide) ==
    UNION { [1..n -> RecordTexts(schema, wide)] : n \in 1..MaxRecords }

TN_DT(ns, schema, f, i) ==
    Elem(ns, "TN_DT", Missing,
         [j \in 1..Len(schema) |->
             Field(ns, schema[j],
                   IF f[j] = Str("v") THEN Str(ValueText[i]) ELSE f[j])])

RecordDocument(schema, recs) ==
    Xml(Elem(URI, "Response", Missing,
        << Field(URI, "Status", Str("OK")),
           Elem(URI, "DataList", Missing,
                [i \in 1..Len(recs) |-> TN_DT(URI, schema, recs[i], i)]) >>))

(* Shaped documents: a root with two slots for a container, each empty or  *)
(* holding a DataList or another element, in the namespace or in none,     *)
(* with up to MaxListRecords TN_DT records, each in the namespace or in    *)
(* none.  The records of the second slot sit one level deeper, inside a    *)
(* Page element, and share one namespace.                                  *)
Namespaces == {URI, ""}

ShapedRecord(ns, i) ==
    IF i = 1
    THEN Elem(ns, "TN_DT", Missing,
              << Field(ns, "CODE", Str("1")), Field(ns, "Period", Str("2020")),
                 Field(ns, "DTVAL_CO", Str("5")) >>)
    ELSE Elem(ns, "TN_DT", Missing,
              << Field(ns, "Period", Str("2021")), Field(ns, "DTVAL_CO", Str("7")),
                 Field(ns, "CODE", Str("1")), Field(ns, "UNIT", Missing) >>)

RecordNamespaces(deep) ==
    IF deep THEN {[i \in 1..n |-> ns] : n \in 0..MaxListRecords, ns \in Namespaces}
    ELSE UNION {[1..n -> Namespaces] : n \in 0..MaxListRecords}

Container(tag, ns, rns, deep) ==
    LET recs == [i \in 1..Len(rns) |-> ShapedRecord(rns[i], i)]
        total == << Field(ns, "Total", Str("2")) >>
    IN  Elem(ns, tag, Missing,
             IF deep THEN << Elem(ns, "Page", Missing, recs) >> \o total
             ELSE recs \o total)

Slot(deep) ==
    {<<>>} \cup { << Container(tag, ns, rns, deep) >> :
                    tag \in {"DataList", "Other"}, ns \in Namespaces,
                    rns \in RecordNamespaces(deep) }

ShapedDocument(tag, ns, s1, s2) == Xml(Elem(ns, tag, Missing, s1 \o s2))

SampleXml == RecordDocument(<<"CODE", "Period", "DTVAL_CO">>,
                 << <<Str("1"), Str("2021"), Str("v")>>,
                    <<Str("1"), Str("2020"), Str("v")>> >>)

(* Three records, two entities, two periods, with letters for codes.       *)
ScenarioXml == RecordDocument(<<"CODE", "Period", "DTVAL_CO">>,
                   << <<Str("A"), Str("2020"), Str("5")>>,
                      <<Str("A"), Str("2021"), Str("7")>>,
                      <<Str("B"), Str("2020"), Str("3")>> >>)

HttpRequest(method, body, form, args) ==
    [mode |-> "http", method |-> method, body |-> body, form |-> form, args |-> args]
CliCall(file) ==
    [mode |-> "cli", method |-> "", body |-> file,
     form |-> [xml_content |-> Absent, xml |-> Absent],
     args |-> [xml_content |-> Absent, xml |-> Absent]]

FewXml == {Absent, Malformed, SampleXml}
Params == [xml_content : FewXml, xml : {Absent, SampleXml}]
NoParams == [xml_content |-> Absent, xml |-> Absent]

(* The requests and CLI calls served.  The documents with free field      *)
(* values are POSTed; the shaped documents are POSTed and converted by the *)
(* CLI.                                                                    *)
IsRequest(req) ==
    \/ \E m \in {"OPTIONS", "GET", "PUT"}, b \in {Absent, SampleXml} :
           req = HttpRequest(m, b, NoParams, NoParams)
    \/ \E f \in Params, a \in Params : req = HttpRequest("POST", Absent, f, a)
    \/ \E b \in {Malformed, ScenarioXml} : req = HttpRequest("POST", b, NoParams, NoParams)
    \/ req = CliCall(Malformed)
    \/ \E sch \in Schemas : \E recs \in RecordsOf(sch, FALSE) :
           req = HttpRequest("POST", RecordDocument(sch, recs), NoParams, NoParams)
    \/ \E recs \in RecordsOf(WideSchema, TRUE) :
           req = HttpRequest("POST", RecordDocument(WideSchema, recs), NoParams, NoParams)
    \/ \E tag \in {"Response", "DataList"}, ns \in Namespaces,
          s1 \in Slot(FALSE), s2 \in Slot(TRUE) :
           \/ req = HttpRequest("POST", ShapedDocument(tag, ns, s1, s2), NoParams, NoParams)
           \/ req = CliCall(ShapedDocument(tag, ns, s1, s2))

-----------------------------------------------------------------------------
(* The state machine: one request, or one CLI conversion, from start to    *)
(* its response.                                                           *)

Init ==
    /\ IsRequest(request)
    /\ pc = "start"
    /\ xml_content = Absent
    /\ df = None
    /\ parse_message = NoMsg
    /\ pivot_df = None
    /\ pivot_message = NoMsg
    /\ sheets = {}
    /\ metadata = NoMetadata
    /\ response = NoResponse

Respond(status, headers, body) ==
    response' = [status_code |-> status, headers |-> headers, body |-> body]

(* handler: the preflight request.                                         *)
HandlerOptions ==
    /\ pc = "start" /\ request.mode = "http"
    /\ request.method = "OPTIONS"
    /\ Respond(200, cors_headers, EmptyBody)
    /\ pc' = "done"
    /\ UNCHANGED <<request, xml_content, df, parse_message, pivot_df,
                   pivot_message, sheets, metadata>>

(* handler: any other method than POST.                                    *)
HandlerMethodNotAllowed ==
    /\ pc = "start" /\ request.mode = "http"
    /\ request.method \notin {"OPTIONS", "POST"}
    /\ Respond(405, cors_headers \cup {json_header},
               ErrorBody(Msg("Method not allowed. Use POST.", <<>>)))
    /\ pc' = "done"
    /\ UNCHANGED <<request, xml_content, df, parse_message, pivot_df,
                   pivot_message, sheets, metadata>>

(* handler: a POST with no XML in body, form or query.                     *)
HandlerNoXml ==
    /\ pc = "start" /\ request.mode = "http"
    /\ request.method = "POST"
    /\ ~find_xml_content(request).present
    /\ Respond(400, cors_headers \cup {json_header},
               ErrorBody(Msg("No XML content provided. Send XML data in body, form, or as xml_content parameter.", <<>>)))
    /\ pc' = "done"
    /\ UNCHANGED <<request, xml_content, df, parse_message, pivot_df,
                   pivot_message, sheets, metadata>>

(* handler: a POST with XML; the CORS headers are set by now.              *)
HandlerReadXml ==
    /\ pc = "start" /\ request.mode = "http"
    /\ request.method = "POST"
    /\ find_xml_content(request).present
    /\ xml_content' = find_xml_content(request)
    /\ Respond(0, cors_headers, NoBody)
    /\ pc' = "parse"
    /\ UNCHANGED <<request, df, parse_message, pivot_df, pivot_message,
                   sheets, metadata>>

(* convert_xml_to_excel: called by main with one file.                     *)
CliReadFile ==
    /\ pc = "start" /\ request.mode = "cli"
    /\ xml_content' = request.body
    /\ pc' = "parse"
    /\ UNCHANGED <<request, df, parse_message, pivot_df, pivot_message,
                   sheets, metadata, response>>

(* parse_xml_to_dataframe returned None: the handler answers 400 with its  *)
(* message, convert_xml_to_excel returns (False, message).                 *)
ExtractFails ==
    /\ pc = "parse"
    /\ LET r == parse_xml_to_dataframe(xml_content)
       IN  /\ r.df.none
           /\ df' = r.df
           /\ parse_message' = r.msg
           /\ IF request.mode = "http"
              THEN Respond(400, response.headers \cup {json_header}, ErrorBody(r.msg))
              ELSE Respond(0, {}, ErrorBody(r.msg))
    /\ pc' = "done"
    /\ UNCHANGED <<request, xml_content, pivot_df, pivot_message, sheets, metadata>>

ExtractOk ==
    /\ pc = "parse"
    /\ LET r == parse_xml_to_dataframe(xml_content)
       IN  /\ ~r.df.none
           /\ df' = r.df
           /\ parse_message' = r.msg
    /\ pc' = "pivot"
    /\ UNCHANGED <<request, xml_content, pivot_df, pivot_message, sheets,
                   metadata, response>>

Reshape ==
    /\ pc = "pivot"
    /\ LET r == create_pivot_table(df)
       IN  /\ df' = r.df
           /\ pivot_df' = r.pivot_df
           /\ pivot_message' = r.msg
    /\ pc' = "write"
    /\ UNCHANGED <<request, xml_content, parse_message, sheets, metadata, response>>

(* The workbook is written and the call answers: 200 with the counts and   *)
(* messages, or (True, messages) from convert_xml_to_excel.                *)
WriteWorkbook ==
    /\ pc = "write"
    /\ sheets' = workbook(IF request.mode = "http" THEN "Data" ELSE "Sheet1",
                          pivot_df, df)
    /\ metadata' = [total_records |-> records_count(df, pivot_df), status |-> "Success",
                    notes |-> pivot_message]
    /\ IF request.mode = "http"
       THEN Respond(200, response.headers \cup {json_header},
                    SuccessBody(parse_message, pivot_message, records_count(df, pivot_df)))
       ELSE Respond(0, {}, SuccessBody(parse_message, pivot_message, records_count(df, pivot_df)))
    /\ pc' = "done"
    /\ UNCHANGED <<request, xml_content, df, parse_message, pivot_df, pivot_message>>

Next ==
    \/ HandlerOptions
    \/ HandlerMethodNotAllowed
    \/ HandlerNoXml
    \/ HandlerReadXml
    \/ CliReadFile
    \/ ExtractFails
    \/ ExtractOk
    \/ Reshape
    \/ WriteWorkbook

Spec == Init /\ [][Next]_vars

-----------------------------------------------------------------------------
(* Vocabulary of the properties.                                           *)

(* create_pivot_table has returned.                                        *)
Reshaped == pc = "write" \/ (pc = "done" /\ ~df.none)
(* parse_xml_to_dataframe has returned.                                    *)
Extracted == pc \in {"pivot", "write", "done"} /\ xml_content.present

PivotedText == "Pivoted data: {R} categories across {P} periods"
DidPivot == Reshaped /\ pivot_message.text = PivotedText

Rows(d) == 1..Len(d.rows)
Present(d, r, col) == HasCol(d, col) /\ ~IsNa(CellOf(d, r, col))

Gate1(d) == HasCol(d, "Period") /\ HasCol(d, "DTVAL_CO")
Gate2(d) == \E c \in {"CODE", "SCR_MN", "SCR_ENG", "SCR_MN1", "SCR_ENG1"} : HasCol(d, c)
Gate3(d) == \E r1, r2 \in Rows(d) :
                /\ Present(d, r1, "Period") /\ Present(d, r2, "Period")
                /\ CellOf(d, r1, "Period") # CellOf(d, r2, "Period")

\* C1: create_pivot_table applies its three gates in order (Period and
\* DTVAL_CO present; an identifier column present; more than one distinct
\* Period value, missing values not counted), the first gate that fails
\* fixes the message, and the table returned is then the input table.
C1_GatesInOrder ==
    Reshaped =>
        /\ ~Gate1(df) =>
              /\ pivot_message = Msg("No pivot - missing required columns", <<>>)
              /\ pivot_df = df
        /\ Gate1(df) /\ ~Gate2(df) =>
              /\ pivot_message = Msg("No pivot - no identifier columns found", <<>>)
              /\ pivot_df = df
        /\ Gate1(df) /\ Gate2(df) /\ ~Gate3(df) =>
              /\ pivot_message = Msg("No pivot - only one period found", <<>>)
              /\ pivot_df = df
        /\ Gate1(df) /\ Gate2(df) /\ Gate3(df) => pivot_message.text = PivotedText

(* The third gate alone fails, on a table one of whose periods is missing. *)
C1_Witness ==
    /\ Reshaped
    /\ Gate1(df) /\ Gate2(df) /\ ~Gate3(df)
    /\ \E r1, r2 \in Rows(df) : Present(df, r1, "Period") /\ ~Present(df, r2, "Period")
    /\ pivot_message.text = "No pivot - only one period found"
    /\ pivot_df = df

(* The identifier columns of a table, and the identifier tuple, period and *)
(* value of its row r.                                                     *)
IdCols(d) == SelectSeq(<<"CODE", "SCR_MN", "SCR_ENG", "SCR_MN1", "SCR_ENG1">>,
                       LAMBDA c : HasCol(d, c))
IdsOf(d, r) == [j \in 1..Len(IdCols(d)) |-> CellOf(d, r, IdCols(d)[j])]
PeriodOf(d, r) == CellOf(d, r, "Period")
ValueOf(d, r) == CellOf(d, r, "DTVAL_CO")
SamePair(d, r1, r2) == IdsOf(d, r1) = IdsOf(d, r2) /\ PeriodOf(d, r1) = PeriodOf(d, r2)

(* The rows of the wide table with identifier tuple t, its columns for the *)
(* period p, and the cell where they meet.                                 *)
IsPeriodLabel(c) == c.kind \in {"int", "float"}
WideRows(t) == {i \in Rows(pivot_df) :
                   \A j \in 1..Len(t) : /\ HasCol(pivot_df, IdCols(df)[j])
                                        /\ CellOf(pivot_df, i, IdCols(df)[j]) = t[j]}
WideCols(p) == {j \in 1..Len(pivot_df.columns) :
                   /\ ~IsNa(p)
                   /\ IsPeriodLabel(pivot_df.columns[j])
                   /\ pivot_df.columns[j].n = p.n}
HasCell(t, p) == WideRows(t) # {} /\ WideCols(p) # {}
WideCell(t, p) == pivot_df.rows[CHOOSE i \in WideRows(t) : TRUE]
                               [CHOOSE j \in WideCols(p) : TRUE]

(* Row r is the first row of the input with its (identifier, period) pair, *)
(* and the pair occurs again further down.                                 *)
FirstOfRepeatedPair(d, r) ==
    /\ \A r0 \in Rows(d) : r0 < r => ~SamePair(d, r0, r)
    /\ \E r2 \in Rows(d) : r < r2 /\ SamePair(d, r, r2)

\* C2: for every (identifier-tuple, Period) pair that occurs in
\* more than one row, the wide table's cell for the pair holds the DTVAL_CO
\* of the first row with the pair, also when that value is missing.
C2_FirstRowWins ==
    DidPivot =>
        \A r \in Rows(df) :
            FirstOfRepeatedPair(df, r) /\ HasCell(IdsOf(df, r), PeriodOf(df, r))
                => WideCell(IdsOf(df, r), PeriodOf(df, r)) = ValueOf(df, r)

(* The records of the document as the loop over the TN_DT elements builds  *)
(* them, before any coercion: the texts as they stand in the XML.          *)
RawRecords ==
    IF xml_content.wellformed /\ find_data_list(xml_content.root) # <<>>
    THEN build_records(find_tn_dt(Head(find_data_list(xml_content.root))))
    ELSE <<>>
RawPeriods ==
    {RawRecords[i].val["Period"] :
        i \in {k \in 1..Len(RawRecords) : "Period" \in Range(RawRecords[k].keys)}}
    \ {Missing}

(* Column c of the wide table is the column of the period written t.       *)
IsColumnOf(c, t) ==
    IF IsNumeral(t.s) THEN IsPeriodLabel(c) /\ c.n = NumeralValue(t.s)
    ELSE c = Name(t.s)

\* C3: in every pivoted result the columns are the present identifier
\* columns in priority order, followed by one column per period label,
\* the integer periods ascending, and every label that does not parse as
\* an integer still present as a column, after all integer periods.
C3_PeriodColumns ==
    DidPivot =>
        LET ids == IdCols(df)
            cols == pivot_df.columns
            years == SubSeq(cols, Len(ids) + 1, Len(cols))
        IN  /\ Len(cols) >= Len(ids)
            /\ \A j \in 1..Len(ids) : cols[j] = Name(ids[j])
            /\ \A t \in RawPeriods :
                  Cardinality({j \in 1..Len(years) : IsColumnOf(years[j], t)}) = 1
            /\ \A j1, j2 \in 1..Len(years) :
                  j1 < j2 =>
                      \/ IsPeriodLabel(years[j1]) /\ IsPeriodLabel(years[j2])
                            /\ years[j1].n < years[j2].n
                      \/ ~IsPeriodLabel(years[j2])

(* No two rows of the table have the same (identifier-tuple, Period) pair. *)
NoRepeatedPair(d) == \A r1, r2 \in Rows(d) : r1 < r2 => ~SamePair(d, r1, r2)

\* C4: when the records of a document share no (identifier-tuple, Period)
\* pair and the table is pivoted, every record has a wide-table row for its
\* identifier-tuple and a column for its Period, and the cell where they
\* meet equals the record's DTVAL_CO: no record is lost.
C4_RoundTrip ==
    DidPivot /\ NoRepeatedPair(df) =>
        \A r \in Rows(df) :
            /\ HasCell(IdsOf(df, r), PeriodOf(df, r))
            /\ WideCell(IdsOf(df, r), PeriodOf(df, r)) = ValueOf(df, r)

(* The identifier tuples with no missing component, and the period values  *)
(* that are not missing, of a table.                                       *)
Tuples(d) == {IdsOf(d, r) : r \in {x \in Rows(d) :
                 \A j \in 1..Len(IdCols(d)) : ~IsNa(IdsOf(d, x)[j])}}
Periods(d) == {PeriodOf(d, r) : r \in Rows(d)} \ {Missing}
YearCols(d) == {j \in 1..Len(d.columns) : IsPeriodLabel(d.columns[j])}

\* C5: a pivot has one row per distinct identifier-tuple of the input and
\* one period column per distinct Period value, and its message carries the
\* row count R and the period column count P; the three records (A, 2020,
\* 5), (A, 2021, 7), (B, 2020, 3) give "Pivoted data: 2 categories across
\* 2 periods" with columns CODE, 2020, 2021 and rows [A, 5, 7], [B, 3, -].
C5_RowsAndColumns ==
    DidPivot =>
        /\ Len(pivot_df.rows) = Cardinality(Tuples(df))
        /\ Cardinality(YearCols(pivot_df)) = Cardinality(Periods(df))
        /\ pivot_message =
               Msg(PivotedText, <<Len(pivot_df.rows), Cardinality(YearCols(pivot_df))>>)
        /\ xml_content = ScenarioXml =>
               /\ pivot_message = Msg(PivotedText, <<2, 2>>)
               /\ pivot_df.columns = <<Name("CODE"), IntLabel(2020), IntLabel(2021)>>
               /\ Len(pivot_df.rows) = 2

(* Every element of the document, the root included.                       *)
Elements(root) == <<root>> \o Descendants(root)
IsNamed(e, tag) == e.tag = tag /\ e.ns \in {URI, ""}

\* C6: for a well-formed document, extraction answers "No DataList found
\* in XML" exactly when no element of the tree, the root included, is a
\* DataList in the namespace or in none; "No data records found" exactly
\* when a DataList is found and has no TN_DT descendant; and otherwise a
\* table with "Successfully parsed {N} records", N the number of TN_DT
\* elements found.
C6_ExtractionOutcome ==
    Extracted /\ xml_content.wellformed =>
        LET all == Elements(xml_content.root)
            some_list == \E k \in 1..Len(all) : IsNamed(all[k], "DataList")
            found == find_data_list(xml_content.root)
            no_record == \A k \in 1..Len(Descendants(Head(found))) :
                             ~IsNamed(Descendants(Head(found))[k], "TN_DT")
        IN  /\ (df.none /\ parse_message = Msg("No DataList found in XML", <<>>))
                   <=> ~some_list
            /\ (df.none /\ parse_message = Msg("No data records found", <<>>))
                   <=> (found # <<>> /\ no_record)
            /\ (found # <<>> /\ ~no_record) =>
                   /\ ~df.none
                   /\ parse_message = Msg("Successfully parsed {N} records",
                                          <<Len(find_tn_dt(Head(found)))>>)
                   /\ Len(df.rows) = Len(find_tn_dt(Head(found)))

(* The document with every element moved to namespace ns.                  *)
RECURSIVE InNamespace(_, _)
InNamespace(e, ns) ==
    [ns |-> ns, tag |-> e.tag, text |-> e.text,
     kids |-> [k \in 1..Len(e.kids) |-> InNamespace(e.kids[k], ns)]]
AllIn(root, ns) == \A k \in 1..Len(Elements(root)) : Elements(root)[k].ns = ns

\* C7: a document whose elements are all in the namespace and the same
\* document with no namespace at all extract to the same outcome: the same
\* table (columns, rows, cells) and message, or the same error.
C7_NamespaceTolerance ==
    Extracted /\ xml_content.wellformed =>
        LET got == [df |-> df, msg |-> parse_message]
            root == xml_content.root
        IN  /\ AllIn(root, URI) =>
                   got = parse_xml_to_dataframe(Xml(InNamespace(root, "")))
            /\ AllIn(root, "") =>
                   got = parse_xml_to_dataframe(Xml(InNamespace(root, URI)))

(* A document all in the namespace has been extracted to a table.          *)
C7_Witness ==
    /\ pc = "pivot"
    /\ AllIn(xml_content.root, URI)
    /\ ~df.none /\ Len(df.rows) = 2 /\ Len(df.columns) = 4
    /\ df = parse_xml_to_dataframe(Xml(InNamespace(xml_content.root, ""))).df

SheetNames == {sh.name : sh \in sheets}

\* C8: the workbook holds the Original_Data sheet, with the table as
\* extracted, whenever the data was pivoted, and does not hold it when the
\* table passed through unchanged.
C8_OriginalDataIffPivoted ==
    pc = "done" /\ sheets # {} =>
        /\ "Original_Data" \in SheetNames <=> DidPivot
        /\ \A sh \in sheets : sh.name = "Original_Data" => sh.table = df

PivotMessages ==
    {"No pivot - missing required columns", "No pivot - no identifier columns found",
     "No pivot - only one period found", PivotedText,
     "Pivot failed: {error}, using original format"}

CarriesXml(req) ==
    \/ req.body.present
    \/ req.form.xml_content.present \/ req.form.xml.present
    \/ req.args.xml_content.present \/ req.args.xml.present

NothingWritten ==
    /\ pivot_df = None /\ pivot_message = NoMsg
    /\ sheets = {} /\ metadata = NoMetadata

====
